---- MODULE Spec2Model ----
(***************************************************************************)
(* Model of the adaptive metadata extraction pipeline:                     *)
(*   src/src/core/pipeline.py      TextPreprocessor, MetadataExtractor,    *)
(*                                 MetadataValidator, PDFMetadataPipeline  *)
(*   src/src/utils/data_checker.py FeedbackMemory, InteractiveDataChecker  *)
(*   src/src/web/app.py            upload_file                             *)
(*                                                                         *)
(* A Python str is a sequence of one-character strings.  The Python value  *)
(* None is the one-element sequence <<"None">>, which no str equals        *)
(* because every element of a str is a single character.                   *)
(***************************************************************************)
EXTENDS Integers, Sequences, FiniteSets, TLC

VARIABLES
    raw_text,       \* the argument of clean_and_segment
    seg_out,        \* what clean_and_segment did with raw_text
    val_args,       \* the arguments of validate_metadata
    val_out,        \* the PipelineResult of validate_metadata
    doc,            \* the document text handed to a caller of process_pdf
    proc_out,       \* what process_pdf did for doc
    shown,          \* what the caller presents to the operator for doc
    feedback_data,  \* FeedbackMemory.feedback_data (in memory)
    disk,           \* the persisted feedback file
    clock,          \* datetime.now(), as a logical clock
    suggestion,     \* the last get_suggestion call and its return value
    mem_out,        \* the last FeedbackMemory call and how it ended
    stores,         \* feedback_data of each of several FeedbackMemory objects
    ext_args,       \* the arguments of one field extraction operation
    ext_out         \* what that extraction operation did

vars == <<raw_text, seg_out, val_args, val_out, doc, proc_out, shown,
          feedback_data, disk, clock, suggestion, mem_out, stores, ext_args, ext_out>>

segVars == <<raw_text, seg_out>>
valVars == <<val_args, val_out>>
pipeVars == <<doc, proc_out, shown>>
memVars == <<feedback_data, disk, clock, suggestion, mem_out, stores>>
extVars == <<ext_args, ext_out>>

(***************************************************************************)
(* Strings                                                                 *)
(***************************************************************************)
None == <<"None">>

Rep(c, n) == [i \in 1..n |-> c]

UpperSeq == <<"A","B","C","D","E","F","G","H","I","J","K","L","M",
              "N","O","P","Q","R","S","T","U","V","W","X","Y","Z">>

LowerSeq == <<"a","b","c","d","e","f","g","h","i","j","k","l","m",
              "n","o","p","q","r","s","t","u","v","w","x","y","z">>

Digits == {"0","1","2","3","4","5","6","7","8","9"}

IsUpper(c) == \E i \in 1..Len(UpperSeq) : UpperSeq[i] = c

IsLower(c) == \E i \in 1..Len(LowerSeq) : LowerSeq[i] = c

IsDigit(c) == c \in Digits

\* \w of the re module
IsWord(c) == IsUpper(c) \/ IsLower(c) \/ IsDigit(c) \/ c = "_"

\* \s of the re module, and what str.strip() removes
IsSpace(c) == c \in {" ", "\n", "\t", "\r"}

\* the characters line 38 keeps: [\w\s\.\,\;\:\!\?\-\(\)]
IsKept(c) == IsWord(c) \/ IsSpace(c) \/ c \in {".", ",", ";", ":", "!", "?", "-", "(", ")"}

\* the separators of the sentence split: [.!?]
IsSentenceEnd(c) == c \in {".", "!", "?"}

LowerChar(c) == IF IsUpper(c) THEN LowerSeq[CHOOSE i \in 1..Len(UpperSeq) : UpperSeq[i] = c] ELSE c

\* str.lower()
lower(s) == [i \in 1..Len(s) |-> LowerChar(s[i])]

MinOf(a, b) == IF a <= b THEN a ELSE b

\* s[:n]
Prefix(s, n) == SubSeq(s, 1, MinOf(n, Len(s)))

RECURSIVE SkipSpacesRight(_, _)
SkipSpacesRight(s, i) == IF i <= Len(s) /\ IsSpace(s[i]) THEN SkipSpacesRight(s, i + 1) ELSE i

RECURSIVE SkipSpacesLeft(_, _)
SkipSpacesLeft(s, j) == IF j >= 1 /\ IsSpace(s[j]) THEN SkipSpacesLeft(s, j - 1) ELSE j

\* str.strip()
strip(s) ==
    LET i == SkipSpacesRight(s, 1)
        j == SkipSpacesLeft(s, Len(s))
    IN  IF i > j THEN <<>> ELSE SubSeq(s, i, j)

StartsAt(s, i, pat) == i + Len(pat) - 1 <= Len(s) /\ SubSeq(s, i, i + Len(pat) - 1) = pat

\* str.startswith(pat)
startswith(s, pat) == StartsAt(s, 1, pat)

\* pat in s
Contains(s, pat) == \E i \in 1..(Len(s) + 1) : StartsAt(s, i, pat)

\* the least position of S, 0 when there is none: where a left-to-right scan stops
First(S) == IF S = {} THEN 0 ELSE CHOOSE j \in S : \A k \in S : j <= k

\* the scan from position i, one step per occurrence of old
RECURSIVE ReplaceFrom(_, _, _, _)
ReplaceFrom(s, i, old, new) ==
    LET j == First({k \in i..Len(s) : StartsAt(s, k, old)})
    IN  IF j = 0 THEN SubSeq(s, i, Len(s))
        ELSE SubSeq(s, i, j - 1) \o new \o ReplaceFrom(s, j + Len(old), old, new)

\* str.replace(old, new): leftmost non-overlapping occurrences
replace(s, old, new) == ReplaceFrom(s, 1, old, new)

RECURSIVE CollapseFrom(_, _)
\* the scan from position i, one step per run of whitespace
CollapseFrom(s, i) ==
    LET j == First({k \in i..Len(s) : IsSpace(s[k])})
    IN  IF j = 0 THEN SubSeq(s, i, Len(s))
        ELSE SubSeq(s, i, j - 1) \o <<" ">> \o CollapseFrom(s, SkipSpacesRight(s, j))

\* re.sub(r'\s+', ' ', s)
NormalizeWhitespace(s) == CollapseFrom(s, 1)

\* re.sub(r'[^\w\s\.\,\;\:\!\?\-\(\)]', '', s)
RemoveArtifacts(s) == SelectSeq(s, IsKept)

RECURSIVE SplitFrom(_, _, _, _)
\* the scan from position i with cur already read, one step per separator
SplitFrom(s, i, cur, sep) ==
    LET j == First({k \in i..Len(s) : StartsAt(s, k, sep)})
    IN  IF j = 0 THEN <<cur \o SubSeq(s, i, Len(s))>>
        ELSE <<cur \o SubSeq(s, i, j - 1)>> \o SplitFrom(s, j + Len(sep), <<>>, sep)

\* str.split(sep)
split(s, sep) == SplitFrom(s, 1, <<>>, sep)

RECURSIVE SkipSentenceEnds(_, _)
SkipSentenceEnds(s, i) ==
    IF i <= Len(s) /\ IsSentenceEnd(s[i]) THEN SkipSentenceEnds(s, i + 1) ELSE i

RECURSIVE SentenceSplitFrom(_, _, _)
\* the scan from position i with cur already read, one step per run of [.!?]
SentenceSplitFrom(s, i, cur) ==
    LET j == First({k \in i..Len(s) : IsSentenceEnd(s[k])})
    IN  IF j = 0 THEN <<cur \o SubSeq(s, i, Len(s))>>
        ELSE <<cur \o SubSeq(s, i, j - 1)>>
             \o SentenceSplitFrom(s, SkipSentenceEnds(s, j), <<>>)

\* re.split(r'[.!?]+', s)
SentenceSplit(s) == SentenceSplitFrom(s, 1, <<>>)

RECURSIVE Join(_, _)
\* sep.join(parts)
Join(parts, sep) ==
    IF Len(parts) = 0 THEN <<>>
    ELSE IF Len(parts) = 1 THEN parts[1]
    ELSE parts[1] \o sep \o Join(Tail(parts), sep)

RECURSIVE Flatten(_)
Flatten(parts) == IF Len(parts) = 0 THEN <<>> ELSE parts[1] \o Flatten(Tail(parts))

(***************************************************************************)
(* TextPreprocessor.clean_and_segment                                      *)
(***************************************************************************)
MinSegmentLen == 20

MaxSegments == 10

FallbackChars == 1000

Newline == <<"\n">>

DoubleNewline == <<"\n", "\n">>

\* line 36-38: the cleaned text
CleanText(s) == RemoveArtifacts(NormalizeWhitespace(replace(strip(s), DoubleNewline, Newline)))


\* LongEnough with the comparison off by one: a fragment of exactly 20 characters is kept
LongEnoughInclusive(p) == Len(p) >= MinSegmentLen

\* LongEnough with the bound off by one: a fragment of exactly 21 characters is dropped
LongEnoughStrict(p) == Len(p) > MinSegmentLen + 1

LongEnough(p) == Len(p) > MinSegmentLen

\* [p.strip() for p in parts if len(p.strip()) > 20]
KeepLong(parts) == SelectSeq([k \in 1..Len(parts) |-> strip(parts[k])], LongEnough)

\* SegmentText that splits into sentences whenever fewer than two paragraphs are kept
SegmentTextSentencesEarly(s) ==
    LET text == CleanText(s)
        paragraphs == KeepLong(split(text, DoubleNewline))
        segments == IF Len(paragraphs) < 2 THEN KeepLong(SentenceSplit(text)) ELSE paragraphs
    IN  Prefix(segments, MaxSegments)

\* lines 36-48, for a str argument
SegmentText(s) ==
    LET text == CleanText(s)
        paragraphs == KeepLong(split(text, DoubleNewline))
        segments == IF Len(paragraphs) = 0 THEN KeepLong(SentenceSplit(text)) ELSE paragraphs
    IN  Prefix(segments, MaxSegments)

\* A raw argument is [kind, val]: a str, a bytes object or None.
\* lines 34-51.  bytes: strip() works and replace("\n\n", "\n") raises TypeError;
\* None: strip raises AttributeError, and the fallback's slice raises TypeError.
clean_and_segment(raw) ==
    IF raw.kind = "str"
    THEN [raised |-> FALSE, msg |-> "", path |-> "main", kind |-> "str",
          segments |-> SegmentText(raw.val)]
    ELSE IF raw.kind = "bytes"
    THEN [raised |-> FALSE, msg |-> "", path |-> "fallback", kind |-> "bytes",
          segments |-> <<Prefix(raw.val, FallbackChars)>>]
    ELSE [raised |-> TRUE, msg |-> "'NoneType' object is not subscriptable",
          path |-> "fallback", kind |-> "none", segments |-> <<>>]

(***************************************************************************)
(* PipelineResult and MetadataValidator.validate_metadata                  *)
(***************************************************************************)
Fields == {"title", "pub_date", "description", "volume_issue"}

PipelineResult(data, warnings, success, stage) ==
    [data |-> data, warnings |-> warnings, success |-> success, stage |-> stage]

MinTitleLen == 3

MaxTitleLen == 200

MinDescriptionLen == 10

MaxDescriptionLen == 1000

TitleShortWarning == "Title missing or too short"

TitleLongWarning == "Title unusually long - may be incorrect"

DateWarning == "Date format unexpected - no 4-digit year found"

DescriptionShortWarning == "Description missing or too short"

DescriptionLongWarning == "Description unusually long - may include extra content"

SchemaWarning == "Schema validation error: None is not of type 'string'"

\* Python's "not v" for a str or None
Falsy(v) == v = None \/ v = <<>>

\* (19|20)\d{2} at position i, with \b on both sides
YearAt(s, i) ==
    /\ i + 3 <= Len(s)
    /\ (s[i] = "1" /\ s[i + 1] = "9") \/ (s[i] = "2" /\ s[i + 1] = "0")
    /\ IsDigit(s[i + 2]) /\ IsDigit(s[i + 3])
    /\ i = 1 \/ ~IsWord(s[i - 1])
    /\ i + 3 = Len(s) \/ ~IsWord(s[i + 4])


\* HasYear without the word boundaries
HasYearAnywhere(s) ==
    \E i \in 1..Len(s) :
        /\ i + 3 <= Len(s)
        /\ (s[i] = "1" /\ s[i + 1] = "9") \/ (s[i] = "2" /\ s[i + 1] = "0")
        /\ IsDigit(s[i + 2]) /\ IsDigit(s[i + 3])

\* re.search(r'\b(19|20)\d{2}\b', s)
HasYear(s) == \E i \in 1..Len(s) : YearAt(s, i)

\* lines 163-166
TitleCheck(title) ==
    IF Falsy(title) \/ Len(title) < MinTitleLen THEN <<TitleShortWarning>>
    ELSE IF Len(title) > MaxTitleLen THEN <<TitleLongWarning>>
    ELSE <<>>

\* lines 169-170
DateCheck(pub_date) ==
    IF ~Falsy(pub_date) /\ ~HasYear(pub_date) THEN <<DateWarning>> ELSE <<>>


\* DescriptionCheck with the lower comparison inclusive
DescriptionCheckInclusive(description) ==
    IF Falsy(description) \/ Len(description) <= MinDescriptionLen THEN <<DescriptionShortWarning>>
    ELSE IF Len(description) > MaxDescriptionLen THEN <<DescriptionLongWarning>>
    ELSE <<>>

\* lines 173-176
DescriptionCheck(description) ==
    IF Falsy(description) \/ Len(description) < MinDescriptionLen THEN <<DescriptionShortWarning>>
    ELSE IF Len(description) > MaxDescriptionLen THEN <<DescriptionLongWarning>>
    ELSE <<>>

\* lines 179-184
MetadataRecord(title, pub_date, description, volume_issue) ==
    [title |-> title, pub_date |-> pub_date, description |-> description,
     volume_issue |-> volume_issue]

\* lines 186-189: jsonschema raises one ValidationError when a property that
\* SCHEMA types as a string is None; both required keys are always present.
SchemaCheck(data) ==
    IF \E f \in DOMAIN data : data[f] = None THEN <<SchemaWarning>> ELSE <<>>


\* validate_metadata with success decided before the description check
validate_metadata_early(title, pub_date, description, volume_issue) ==
    LET data == MetadataRecord(title, pub_date, description, volume_issue)
        early == TitleCheck(title) \o DateCheck(pub_date)
        warnings == early \o DescriptionCheck(description) \o SchemaCheck(data)
    IN  PipelineResult(data, warnings, Len(early) = 0, "validation")

\* lines 158-196
validate_metadata(title, pub_date, description, volume_issue) ==
    LET data == MetadataRecord(title, pub_date, description, volume_issue)
        warnings == TitleCheck(title) \o DateCheck(pub_date)
                    \o DescriptionCheck(description) \o SchemaCheck(data)
    IN  PipelineResult(data, warnings, Len(warnings) = 0, "validation")

(***************************************************************************)
(* MetadataExtractor                                                       *)
(***************************************************************************)
TitleSegments == 3

DateSegments == 5

VolumeSegments == 3

\* What the POST of line 67 meets.  A reply is [kind, val]:
\*   unreachable, timeout   requests.post raises
\*   http_error             raise_for_status raises
\*   non_json               response.json() raises
\*   json_array             the body is JSON but no object: .get raises
\*   no_response_key        a JSON object without 'response'
\*   response               a JSON object whose 'response' is val (a str or null)
FailureKinds == {"unreachable", "timeout", "http_error", "non_json", "json_array"}

Reply(kind, val) == [kind |-> kind, val |-> val]

\* lines 59-72: every exception inside the try gives "", a missing key gives the
\* default '', and a present 'response' entry is returned as it is.
query_ollama(reply) == IF reply.kind = "response" THEN reply.val ELSE <<>>

Prompt(op, text, hint, has_style, style, has_examples, examples) ==
    [op |-> op, text |-> text, hint |-> hint, has_style |-> has_style, style |-> style,
     has_examples |-> has_examples, examples |-> examples]

Raise(msg, requests) == [raised |-> TRUE, msg |-> msg, value |-> <<>>, requests |-> requests]

Return(value, requests) == [raised |-> FALSE, msg |-> "", value |-> value, requests |-> requests]

JoinTypeError == "sequence item 0: expected str instance, bytes found"

StripAttributeError == "'NoneType' object has no attribute 'strip'"

\* the common shape of the four operations: '\n'.join(segments[:n]) raises
\* TypeError on a bytes segment; then the prompt is sent and .strip() is
\* applied, outside any try, to what query_ollama returned.
Extract(seg, prompt, reply) ==
    IF seg.kind # "str" THEN Raise(JoinTypeError, <<>>)
    ELSE LET answer == query_ollama(reply)
         IN  IF answer = None THEN Raise(StripAttributeError, <<prompt>>)
             ELSE Return(strip(answer), <<prompt>>)

SegmentBlock(seg, n) == IF seg.kind = "str" THEN Join(Prefix(seg.segments, n), Newline) ELSE <<>>

\* lines 74-86
extract_title(seg, reply) ==
    Extract(seg,
            Prompt("title", SegmentBlock(seg, TitleSegments), <<>>, FALSE, "", FALSE, <<>>),
            reply)

\* lines 88-104: "if target_date_range" adds the hint
extract_date(seg, target_date_range, reply) ==
    Extract(seg,
            Prompt("pub_date", SegmentBlock(seg, DateSegments),
                   IF Falsy(target_date_range) THEN <<>> ELSE target_date_range,
                   FALSE, "", FALSE, <<>>),
            reply)

\* {} is the empty function; a dict is truthy when it has a key
HasKey(d, k) == DOMAIN d # {} /\ k \in DOMAIN d

\* lines 106-127
extract_description(seg, user_preferences, reply) ==
    LET has_style == HasKey(user_preferences, "description_style")
        has_examples == HasKey(user_preferences, "description_examples")
    IN  Extract(seg,
                Prompt("description", SegmentBlock(seg, Len(seg.segments)), <<>>,
                       has_style,
                       IF has_style THEN user_preferences["description_style"] ELSE "",
                       has_examples,
                       IF has_examples THEN user_preferences["description_examples"] ELSE <<>>),
                reply)

\* lines 129-141
extract_volume_issue(seg, reply) ==
    Extract(seg,
            Prompt("volume_issue", SegmentBlock(seg, VolumeSegments), <<>>, FALSE, "", FALSE, <<>>),
            reply)

(***************************************************************************)
(* PDFMetadataPipeline.process_pdf                                         *)
(***************************************************************************)
NoResult == PipelineResult(<<>>, <<>>, FALSE, "none")

Outcome(raised, msg, result, requests, validations) ==
    [raised |-> raised, msg |-> msg, result |-> result, requests |-> requests,
     validations |-> validations]

NoSegmentsWarning == "No text segments found after preprocessing"

\* lines 225-241: the four extractions in order, then validation
ExtractAndValidate(seg, target_date_range, user_preferences, replies) ==
    LET t == extract_title(seg, replies["title"])
        d == extract_date(seg, target_date_range, replies["pub_date"])
        s == extract_description(seg, user_preferences, replies["description"])
        v == extract_volume_issue(seg, replies["volume_issue"])
    IN  IF t.raised THEN Outcome(TRUE, t.msg, NoResult, t.requests, 0)
        ELSE IF d.raised THEN Outcome(TRUE, d.msg, NoResult, t.requests \o d.requests, 0)
        ELSE IF s.raised
        THEN Outcome(TRUE, s.msg, NoResult, t.requests \o d.requests \o s.requests, 0)
        ELSE IF v.raised
        THEN Outcome(TRUE, v.msg, NoResult,
                     t.requests \o d.requests \o s.requests \o v.requests, 0)
        ELSE Outcome(FALSE, "",
                     validate_metadata(t.value, d.value, s.value, v.value),
                     t.requests \o d.requests \o s.requests \o v.requests, 1)

\* ProcessBody without the 'if not segments' return
ProcessBodyThrough(pdf_text, target_date_range, user_preferences, replies) ==
    LET seg == clean_and_segment(pdf_text)
    IN  IF seg.raised THEN Outcome(TRUE, seg.msg, NoResult, <<>>, 0)
        ELSE ExtractAndValidate(seg, target_date_range, user_preferences, replies)

\* lines 213-241: the body of the try
ProcessBody(pdf_text, target_date_range, user_preferences, replies) ==
    LET seg == clean_and_segment(pdf_text)
    IN  IF seg.raised THEN Outcome(TRUE, seg.msg, NoResult, <<>>, 0)
        ELSE IF Len(seg.segments) = 0
        THEN Outcome(FALSE, "",
                     PipelineResult(<<>>, <<NoSegmentsWarning>>, FALSE, "preprocessing"),
                     <<>>, 0)
        ELSE ExtractAndValidate(seg, target_date_range, user_preferences, replies)

\* lines 243-250: except Exception
PipelineError(body) ==
    Outcome(FALSE, body.msg,
            PipelineResult(<<>>, <<"Pipeline error: " \o body.msg>>, FALSE, "pipeline"),
            body.requests, body.validations)


\* process_pdf whose except clause is missing
process_pdf_uncaught(pdf_text, target_date_range, user_preferences, replies) ==
    ProcessBody(pdf_text, target_date_range, user_preferences, replies)

\* lines 210-250
process_pdf(pdf_text, target_date_range, user_preferences, replies) ==
    LET body == ProcessBody(pdf_text, target_date_range, user_preferences, replies)
    IN  IF body.raised THEN PipelineError(body) ELSE body

(***************************************************************************)
(* FeedbackMemory                                                          *)
(***************************************************************************)
PatternKeyLen == 50

BriefBelow == 50

DetailedAbove == 200

MaxExamples == 5

EmptyKey == <<"e","m","p","t","y">>

BriefStyle == "Keep descriptions brief and concise"

DetailedStyle == "Provide detailed comprehensive descriptions"

UppercaseTitles == "Prefer uppercase titles"

TitleCase == "Prefer title case"

VolumeIssueFormat == "Use 'Volume X, Issue Y' format"

VolNoFormat == "Use 'Vol. X, No. Y' format"

\* lines 40-57; last_updated None is 0, before every clock value
DefaultMemory ==
    [corrections |-> <<>>,
     patterns |-> <<>>,
     user_preferences |->
        [description_style |-> "", description_examples |-> <<>>, title_format |-> "",
         date_format |-> "", volume_format |-> ""],
     fine_tuning_prompts |-> [title |-> "", date |-> "", description |-> "", volume_issue |-> ""],
     last_updated |-> 0]

\* The feedback file is absent, holds a saved memory, or holds bytes json.load rejects.
AbsentFile == [state |-> "absent", data |-> DefaultMemory]

CorruptFile == [state |-> "corrupt", data |-> DefaultMemory]

\* The file exists and open(memory_file, 'r') raises.
UnreadableFile == [state |-> "unreadable", data |-> DefaultMemory]

SavedFile(memory) == [state |-> "saved", data |-> memory]

\* load_memory with 'return {}' in the except clause
load_memory_empty(file) ==
    IF file.state = "saved" THEN file.data
    ELSE IF file.state = "absent" THEN DefaultMemory
    ELSE <<>>

\* lines 32-57
load_memory(file) == IF file.state = "saved" THEN file.data ELSE DefaultMemory

\* lines 81 and 127: value.lower()[:50] if value else "empty"
pattern_key(value) == IF Falsy(value) THEN EmptyKey ELSE Prefix(lower(value), PatternKeyLen)


\* Upsert that keeps the value a key already has
UpsertKeepFirst(patterns, field, key, corrected) ==
    LET old == IF field \in DOMAIN patterns THEN patterns[field] ELSE <<>>
        new == [k \in DOMAIN old \cup {key} |-> IF k \in DOMAIN old THEN old[k] ELSE corrected]
    IN  [f \in DOMAIN patterns \cup {field} |-> IF f = field THEN new ELSE patterns[f]]

\* Upsert with += in place of =
UpsertAccumulate(patterns, field, key, corrected) ==
    LET old == IF field \in DOMAIN patterns THEN patterns[field] ELSE <<>>
        new == [k \in DOMAIN old \cup {key} |->
                   IF k # key THEN old[k]
                   ELSE IF k \in DOMAIN old THEN old[k] \o corrected ELSE corrected]
    IN  [f \in DOMAIN patterns \cup {field} |-> IF f = field THEN new ELSE patterns[f]]

\* patterns[field][key] = corrected, creating patterns[field] when absent (lines 78-82)
Upsert(patterns, field, key, corrected) ==
    LET old == IF field \in DOMAIN patterns THEN patterns[field] ELSE <<>>
        new == [k \in DOMAIN old \cup {key} |-> IF k = key THEN corrected ELSE old[k]]
    IN  [f \in DOMAIN patterns \cup {field} |-> IF f = field THEN new ELSE patterns[f]]

IsCased(c) == IsUpper(c) \/ IsLower(c)

\* str.isupper()
isupper(s) == (\E i \in 1..Len(s) : IsUpper(s[i])) /\ ~(\E i \in 1..Len(s) : IsLower(s[i]))

\* str.istitle()
istitle(s) ==
    /\ \E i \in 1..Len(s) : IsCased(s[i])
    /\ \A i \in 1..Len(s) :
          /\ IsUpper(s[i]) => (i = 1 \/ ~IsCased(s[i - 1]))
          /\ IsLower(s[i]) => (i > 1 /\ IsCased(s[i - 1]))

InSeq(x, seq) == \E i \in 1..Len(seq) : seq[i] = x

\* lines 94-97
DescriptionStyle(prefs, corrected) ==
    IF Len(corrected) < BriefBelow THEN BriefStyle
    ELSE IF Len(corrected) > DetailedAbove THEN DetailedStyle
    ELSE prefs.description_style

\* DescriptionExamples with pop() in place of pop(0)
DescriptionExamplesDropNewest(prefs, corrected) ==
    IF InSeq(corrected, prefs.description_examples) THEN prefs.description_examples
    ELSE LET added == Append(prefs.description_examples, corrected)
         IN  IF Len(added) > MaxExamples THEN SubSeq(added, 1, Len(added) - 1) ELSE added

\* lines 100-104
DescriptionExamples(prefs, corrected) ==
    IF InSeq(corrected, prefs.description_examples) THEN prefs.description_examples
    ELSE LET added == Append(prefs.description_examples, corrected)
         IN  IF Len(added) > MaxExamples THEN Tail(added) ELSE added

\* TitleFormat that blanks the preference when neither test holds
TitleFormatReset(prefs, corrected) ==
    IF isupper(corrected) THEN UppercaseTitles
    ELSE IF istitle(corrected) THEN TitleCase
    ELSE ""

\* lines 108-111
TitleFormat(prefs, corrected) ==
    IF isupper(corrected) THEN UppercaseTitles
    ELSE IF istitle(corrected) THEN TitleCase
    ELSE prefs.title_format

\* VolumeFormat that assigns only while the preference is blank
VolumeFormatOnce(prefs, corrected) ==
    IF prefs.volume_format # "" THEN prefs.volume_format
    ELSE IF Contains(corrected, <<"V","o","l","u","m","e">>) /\ Contains(corrected, <<"I","s","s","u","e">>)
    THEN VolumeIssueFormat
    ELSE IF Contains(corrected, <<"V","o","l",".">>) /\ Contains(corrected, <<"N","o",".">>)
    THEN VolNoFormat
    ELSE prefs.volume_format

\* lines 115-118
VolumeFormat(prefs, corrected) ==
    IF Contains(corrected, <<"V","o","l","u","m","e">>) /\ Contains(corrected, <<"I","s","s","u","e">>)
    THEN VolumeIssueFormat
    ELSE IF Contains(corrected, <<"V","o","l",".">>) /\ Contains(corrected, <<"N","o",".">>)
    THEN VolNoFormat
    ELSE prefs.volume_format

\* update that rebuilds the preferences from the blank ones at every correction
update_from_blank_preferences(prefs, field, original_value, corrected_value) ==
    LET blank == DefaultMemory.user_preferences
    IN  IF field = "description"
        THEN [blank EXCEPT !.description_style = DescriptionStyle(prefs, corrected_value),
                           !.description_examples = DescriptionExamples(prefs, corrected_value)]
        ELSE IF field = "title"
        THEN [blank EXCEPT !.title_format = TitleFormat(prefs, corrected_value)]
        ELSE IF field = "volume_issue"
        THEN [blank EXCEPT !.volume_format = VolumeFormat(prefs, corrected_value)]
        ELSE prefs

\* lines 90-118
update_fine_tuning_preferences(prefs, field, original_value, corrected_value) ==
    IF field = "description"
    THEN [prefs EXCEPT !.description_style = DescriptionStyle(prefs, corrected_value),
                       !.description_examples = DescriptionExamples(prefs, corrected_value)]
    ELSE IF field = "title"
    THEN [prefs EXCEPT !.title_format = TitleFormat(prefs, corrected_value)]
    ELSE IF field = "volume_issue"
    THEN [prefs EXCEPT !.volume_format = VolumeFormat(prefs, corrected_value)]
    ELSE prefs

Correction(filename, field, original_value, corrected_value, context, timestamp) ==
    [filename |-> filename, field |-> field, original |-> original_value,
     corrected |-> corrected_value, context |-> context, timestamp |-> timestamp]

\* add_correction that replaces the earlier correction of the same field and original
CorrectedReplacing(memory, filename, field, original_value, corrected_value, context, now) ==
    [memory EXCEPT
        !.corrections =
            Append(SelectSeq(@, LAMBDA c : ~(c.field = field /\ c.original = original_value)),
                   Correction(filename, field, original_value, corrected_value, context, now)),
        !.patterns = Upsert(@, field, pattern_key(original_value), corrected_value),
        !.user_preferences = update_fine_tuning_preferences(@, field, original_value,
                                                            corrected_value)]

\* lines 67-85: the memory when save_memory is called
Corrected(memory, filename, field, original_value, corrected_value, context, now) ==
    [memory EXCEPT
        !.corrections = Append(@, Correction(filename, field, original_value,
                                             corrected_value, context, now)),
        !.patterns = Upsert(@, field, pattern_key(original_value), corrected_value),
        !.user_preferences = update_fine_tuning_preferences(@, field, original_value,
                                                            corrected_value)]

\* d[key] = val on a dict: the key is created when absent
Put(d, key, val) == [k \in DOMAIN d \cup {key} |-> IF k = key THEN val ELSE d[k]]

\* line 61
Stamped(memory, now) == Put(memory, "last_updated", now)

\* Save that keeps the corrections the file has and the memory lacks
save_memory_merged(file, memory, opened) ==
    IF ~opened THEN file
    ELSE IF file.state = "saved" /\ DOMAIN file.data # {} /\ "corrections" \in DOMAIN file.data
    THEN LET kept == SelectSeq(file.data.corrections,
                               LAMBDA c : \A i \in 1..Len(memory.corrections) :
                                             memory.corrections[i] # c)
         IN  [state |-> "saved",
              data |-> Put(memory, "corrections", kept \o memory.corrections)]
    ELSE [state |-> "saved", data |-> memory]

\* lines 62-63: open(memory_file, 'w') raises and leaves the file as it was, or the
\* whole memory replaces the content of the file
save_memory(file, memory, opened) == IF opened THEN SavedFile(memory) ELSE file

\* how a FeedbackMemory method ended: the message of the exception it raised, or ""
KeyError(key, memory) == [raised |-> "KeyError: '" \o key \o "'", memory |-> memory]

Done(memory) == [raised |-> "", memory |-> memory]

PreferenceKeys ==
    {"description_style", "description_examples", "title_format", "date_format", "volume_format"}

\* the memory has every key lines 65-118 subscript
FullShape(memory) ==
    /\ HasKey(memory, "corrections")
    /\ HasKey(memory, "patterns")
    /\ HasKey(memory, "user_preferences")
    /\ PreferenceKeys \subseteq DOMAIN memory.user_preferences

\* lines 94-97, 108-111, 115-118: the conditions under which a preference is assigned
StyleRule(corrected) == Len(corrected) < BriefBelow \/ Len(corrected) > DetailedAbove

TitleRule(corrected) == isupper(corrected) \/ istitle(corrected)

VolumeRule(corrected) ==
    \/ Contains(corrected, <<"V","o","l","u","m","e">>) /\ Contains(corrected, <<"I","s","s","u","e">>)
    \/ Contains(corrected, <<"V","o","l",".">>) /\ Contains(corrected, <<"N","o",".">>)

\* lines 90-118 on a memory loaded from a file that lacks preference keys: each
\* subscript of an absent key raises KeyError, an assignment creates its key
update_loaded_preferences(memory, field, corrected_value) ==
    LET subscripts == \/ field = "description"
                      \/ field = "title" /\ TitleRule(corrected_value)
                      \/ field = "volume_issue" /\ VolumeRule(corrected_value)
    IN  IF ~subscripts THEN Done(memory)
        ELSE IF ~HasKey(memory, "user_preferences") THEN KeyError("user_preferences", memory)
        ELSE LET prefs == memory.user_preferences
             IN  IF field = "title"
                 THEN Done(Put(memory, "user_preferences",
                               Put(prefs, "title_format", TitleFormat(prefs, corrected_value))))
                 ELSE IF field = "volume_issue"
                 THEN Done(Put(memory, "user_preferences",
                               Put(prefs, "volume_format", VolumeFormat(prefs, corrected_value))))
                 ELSE LET styled == IF StyleRule(corrected_value)
                                    THEN Put(prefs, "description_style",
                                             DescriptionStyle(prefs, corrected_value))
                                    ELSE prefs
                      IN  IF ~HasKey(styled, "description_examples")
                          THEN KeyError("description_examples",
                                        Put(memory, "user_preferences", styled))
                          ELSE Done(Put(memory, "user_preferences",
                                        Put(styled, "description_examples",
                                            DescriptionExamples(styled, corrected_value))))

\* lines 65-85: the memory when save_memory is called, or when a subscript raised
add_correction(memory, filename, field, original_value, corrected_value, context, now) ==
    IF FullShape(memory)
    THEN Done(Corrected(memory, filename, field, original_value, corrected_value, context, now))
    ELSE IF ~HasKey(memory, "corrections") THEN KeyError("corrections", memory)
    ELSE LET appended == Put(memory, "corrections",
                             Append(memory.corrections,
                                    Correction(filename, field, original_value,
                                               corrected_value, context, now)))
         IN  IF ~HasKey(memory, "patterns") THEN KeyError("patterns", appended)
             ELSE update_loaded_preferences(
                      Put(appended, "patterns",
                          Upsert(memory.patterns, field, pattern_key(original_value),
                                 corrected_value)),
                      field, corrected_value)

\* lines 120-122
get_user_preferences(memory) == memory.user_preferences

\* lines 124-130
get_suggestion(memory, field, value) ==
    IF field \in DOMAIN memory.patterns /\ pattern_key(value) \in DOMAIN memory.patterns[field]
    THEN memory.patterns[field][pattern_key(value)]
    ELSE None

(***************************************************************************)
(* Values of the variables a specification does not use                    *)
(***************************************************************************)
NoRaw == [kind |-> "unset", val |-> <<>>]

NotSegmented == [raised |-> FALSE, msg |-> "", path |-> "none", kind |-> "none", segments |-> <<>>]

NoReplies == [f \in Fields |-> Reply("unreachable", <<>>)]

NoDoc == [caller |-> "none", text |-> NoRaw, hint |-> None, pdf_name |-> FALSE]

NotProcessed == [called |-> FALSE, replies |-> NoReplies, out |-> Outcome(FALSE, "", NoResult, <<>>, 0)]

NotShown ==
    [done |-> FALSE, present |-> FALSE, metadata |-> <<>>, warnings |-> <<>>, stage |-> "none",
     printed |-> ""]

NoSuggestion == [field |-> "none", value |-> <<>>, result |-> None]

NoCall == [op |-> "none", raised |-> "", by |-> 0]

NoStores == <<>>

NoExtraction == [op |-> "none", seg |-> NotSegmented, reply |-> Reply("unreachable", <<>>)]

NotExtracted == [called |-> FALSE, out |-> Return(<<>>, <<>>)]

SegIdle == raw_text = NoRaw /\ seg_out = NotSegmented

ValIdle == val_args = <<>> /\ val_out = NoResult

PipeIdle == doc = NoDoc /\ proc_out = NotProcessed /\ shown = NotShown

MemIdle ==
    /\ feedback_data = DefaultMemory
    /\ disk = AbsentFile
    /\ clock = 0
    /\ suggestion = NoSuggestion
    /\ mem_out = NoCall
    /\ stores = NoStores

ExtIdle == ext_args = NoExtraction /\ ext_out = NotExtracted

(***************************************************************************)
(* Segmentation of bounded inputs                                          *)
(***************************************************************************)
MaxPieces == 3

PieceSeqs(S, n) == UNION {[1..k -> S] : k \in 0..n}

SegPieces ==
    {Rep("a", MinSegmentLen), Rep("a", MinSegmentLen + 1), <<"b">>, <<" ">>,
     DoubleNewline, <<".">>, <<"#">>}

SegTexts == {Flatten(p) : p \in PieceSeqs(SegPieces, MaxPieces)}

SegBytes == {Rep("a", n) : n \in {0, MinSegmentLen + 1, FallbackChars, FallbackChars + 1}}

SegInputs ==
    {[kind |-> "str", val |-> t] : t \in SegTexts}
    \cup {[kind |-> "bytes", val |-> b] : b \in SegBytes}
    \cup {[kind |-> "none", val |-> <<>>]}

SegInit ==
    /\ raw_text \in SegInputs
    /\ seg_out = NotSegmented
    /\ ValIdle /\ PipeIdle /\ MemIdle /\ ExtIdle

Segment ==
    /\ raw_text # NoRaw
    /\ seg_out.path = "none"
    /\ seg_out' = clean_and_segment(raw_text)
    /\ UNCHANGED <<raw_text, valVars, pipeVars, memVars, extVars>>

SegNext == Segment

SpecSeg == SegInit /\ [][SegNext]_vars

(***************************************************************************)
(* Validation of bounded inputs                                            *)
(***************************************************************************)
LenSlack == 1

\* the lengths within LenSlack of a bound, and 0
Around(lo, hi) ==
    {n \in (lo - LenSlack)..(lo + LenSlack) : n >= 0}
    \cup (hi - LenSlack)..(hi + LenSlack) \cup {0}

TitleValues == {None} \cup {Rep("T", n) : n \in Around(MinTitleLen, MaxTitleLen)}

DescriptionValues == {None} \cup {Rep("d", n) : n \in Around(MinDescriptionLen, MaxDescriptionLen)}

VolumeValues == {None, <<>>, <<"V","o","l","."," ","3",","," ","N","o","."," ","4">>}

June1979 == <<"J","u","n","e"," ","1","9","7","9">>

NoYearHere == <<"n","o"," ","y","e","a","r"," ","h","e","r","e">>

DatePieces == {<<"1","9">>, <<"2","0">>, <<"7","9">>, <<"7">>, <<"x">>, <<" ">>, <<"-">>}

DateValues ==
    {None, June1979, NoYearHere} \cup {Flatten(p) : p \in PieceSeqs(DatePieces, MaxPieces)}

ValInputs ==
    (TitleValues \X {None, <<>>, June1979, NoYearHere} \X DescriptionValues \X VolumeValues)
    \cup ({Rep("T", MinTitleLen)} \X DateValues \X {Rep("d", MinDescriptionLen)} \X {<<>>})

ValInit ==
    /\ val_args \in ValInputs
    /\ val_out = NoResult
    /\ SegIdle /\ PipeIdle /\ MemIdle /\ ExtIdle

Validate ==
    /\ val_args # <<>>
    /\ val_out.stage = "none"
    /\ val_out' = validate_metadata(val_args[1], val_args[2], val_args[3], val_args[4])
    /\ UNCHANGED <<val_args, segVars, pipeVars, memVars, extVars>>

ValNext == Validate

SpecVal == ValInit /\ [][ValNext]_vars

(***************************************************************************)
(* One field extraction on bounded inputs                                  *)
(***************************************************************************)
Year1979 == <<"1","9","7","9">>

ATitle == <<"A"," ","T","i","t","l","e">>

Vol3No4 == <<"V","o","l","."," ","3",","," ","N","o","."," ","4">>

\* segmentations the operations are handed: of a text, and the bytes fallback
ExtSegmentations ==
    {clean_and_segment([kind |-> "str", val |-> Rep("a", MinSegmentLen + 1)]),
     clean_and_segment([kind |-> "bytes", val |-> Rep("a", MinSegmentLen + 1)])}

ReplyPieces == {<<" ">>, <<"\n">>, <<"T">>, Year1979}

ExtReplies ==
    {Reply(k, <<>>) : k \in FailureKinds \cup {"no_response_key"}}
    \cup {Reply("response", None)}
    \cup {Reply("response", Flatten(p)) : p \in PieceSeqs(ReplyPieces, MaxPieces)}

ExtInputs ==
    {[op |-> o, seg |-> g, reply |-> r] : o \in Fields, g \in ExtSegmentations, r \in ExtReplies}

ExtInit ==
    /\ ext_args \in ExtInputs
    /\ ext_out = NotExtracted
    /\ SegIdle /\ ValIdle /\ PipeIdle /\ MemIdle

\* the operation named by op, as process_pdf calls it (lines 227-230)
ExtractField(op, seg, target_date_range, user_preferences, reply) ==
    IF op = "title" THEN extract_title(seg, reply)
    ELSE IF op = "pub_date" THEN extract_date(seg, target_date_range, reply)
    ELSE IF op = "description" THEN extract_description(seg, user_preferences, reply)
    ELSE extract_volume_issue(seg, reply)

ExtractOne ==
    /\ ext_args # NoExtraction
    /\ ~ext_out.called
    /\ \E hint \in {None, Year1979}, prefs \in {<<>>, DefaultMemory.user_preferences} :
          ext_out' = [called |-> TRUE,
                      out |-> ExtractField(ext_args.op, ext_args.seg, hint, prefs, ext_args.reply)]
    /\ UNCHANGED <<ext_args, segVars, valVars, pipeVars, memVars>>

ExtNext == ExtractOne

SpecExtract == ExtInit /\ [][ExtNext]_vars

(***************************************************************************)
(* process_pdf and its callers: InteractiveDataChecker.process_single_file *)
(* and the /upload handler                                                 *)
(***************************************************************************)
ErrorPrefix == <<"E","r","r","o","r">>

PipelineFailedText ==
    <<"P","i","p","e","l","i","n","e"," ","p","r","o","c","e","s","s","i","n","g"," ",
      "f","a","i","l","e","d">>

PipelineErrorText == <<"P","i","p","e","l","i","n","e"," ","e","r","r","o","r",":"," ">>

\* lines 33-42 of app.py: the preferences of the feedback file in the working directory
load_user_preferences(file) ==
    IF file.state = "saved" /\ "user_preferences" \in DOMAIN file.data
    THEN file.data.user_preferences
    ELSE <<>>

Get(d, k, default) == IF k \in DOMAIN d THEN d[k] ELSE default

\* lines 285-289 of data_checker.py: the keys added for the fields of the loop
\* ("abstract" is the loop's third field)
Suggested(memory, metadata) ==
    {f \in {"title", "pub_date", "abstract", "volume_issue"} :
        LET current == Get(metadata, f, <<>>)
            hint == get_suggestion(memory, f, current)
        IN  ~Falsy(hint) /\ hint # current}

WithSuggestions(memory, metadata) ==
    LET added == {f \o "_suggested" : f \in Suggested(memory, metadata)}
    IN  [k \in DOMAIN metadata \cup added |->
            IF k \in DOMAIN metadata /\ k \notin added THEN metadata[k]
            ELSE LET f == CHOOSE g \in Suggested(memory, metadata) : g \o "_suggested" = k
                 IN  get_suggestion(memory, f, Get(metadata, f, <<>>))]

Shown(present, metadata, warnings, stage, printed) ==
    [done |-> TRUE, present |-> present, metadata |-> metadata, warnings |-> warnings,
     stage |-> stage, printed |-> printed]

\* lines 273-281 of app.py
FailedMetadata ==
    [date |-> PipelineFailedText, title |-> PipelineFailedText,
     description |-> PipelineFailedText, volume_issue |-> PipelineFailedText,
     error |-> PipelineErrorText]

LongDescription == Rep("d", MaxDescriptionLen + 1)

GoodReply(f) ==
    IF f = "title" THEN ATitle
    ELSE IF f = "pub_date" THEN June1979
    ELSE IF f = "description" THEN Rep("d", MinDescriptionLen)
    ELSE Vol3No4

PoorReply(f) ==
    IF f = "title" THEN Rep("T", MinTitleLen - 1)
    ELSE IF f = "pub_date" THEN NoYearHere
    ELSE IF f = "description" THEN LongDescription
    ELSE <<>>

PipeReplies(f) ==
    {Reply("unreachable", <<>>), Reply("response", None),
     Reply("response", GoodReply(f)), Reply("response", PoorReply(f))}

ReplyChoices ==
    {[title |-> t, pub_date |-> d, description |-> c, volume_issue |-> v] :
        t \in PipeReplies("title"), d \in PipeReplies("pub_date"),
        c \in PipeReplies("description"), v \in PipeReplies("volume_issue")}

PipeTexts ==
    {<<>>, <<"b">>, Rep("a", MinSegmentLen) \o <<"#">>, Rep("a", MinSegmentLen + 1),
     Rep("a", MinSegmentLen + 1) \o DoubleNewline \o Rep("b", MinSegmentLen + 1),
     ErrorPrefix \o <<" ">> \o Rep("a", MinSegmentLen + 1)}

Doc(caller, text, hint, pdf_name) ==
    [caller |-> caller, text |-> text, hint |-> hint, pdf_name |-> pdf_name]

PipeDocs ==
    {Doc("api", r, h, TRUE) :
        r \in {[kind |-> "str", val |-> t] : t \in PipeTexts}
              \cup {[kind |-> "bytes", val |-> Rep("a", MinSegmentLen + 1)],
                    [kind |-> "none", val |-> <<>>]},
        h \in {None, Year1979}}
    \cup {Doc("checker", [kind |-> "str", val |-> t], h, TRUE) :
            t \in PipeTexts, h \in {None, Year1979}}
    \cup {Doc("web", [kind |-> "str", val |-> t], None, n) : t \in PipeTexts, n \in BOOLEAN}

PipeInit ==
    /\ doc \in PipeDocs
    /\ proc_out = NotProcessed
    /\ shown = NotShown
    /\ SegIdle /\ ValIdle /\ MemIdle /\ ExtIdle

\* a direct call of PDFMetadataPipeline().process_pdf
ProcessPdf ==
    /\ doc.caller = "api" /\ ~proc_out.called
    /\ \E replies \in ReplyChoices :
          proc_out' = [called |-> TRUE, replies |-> replies,
                       out |-> process_pdf(doc.text, doc.hint, <<>>, replies)]
    /\ UNCHANGED <<doc, shown, segVars, valVars, memVars, extVars>>

\* lines 265-304 of data_checker.py, and what run_batch_processing displays
ProcessSingleFile ==
    /\ doc.caller = "checker" /\ ~shown.done
    /\ IF startswith(doc.text.val, ErrorPrefix)
       THEN /\ shown' = Shown(FALSE, <<>>, <<>>, "none", "Failed to extract text")
            /\ UNCHANGED proc_out
       ELSE \E replies \in ReplyChoices :
              LET out == process_pdf(doc.text, doc.hint,
                                     get_user_preferences(feedback_data), replies)
              IN  /\ proc_out' = [called |-> TRUE, replies |-> replies, out |-> out]
                  /\ shown' = IF out.result.success
                              THEN Shown(TRUE, WithSuggestions(feedback_data, out.result.data),
                                         out.result.warnings, out.result.stage, "")
                              ELSE Shown(FALSE, <<>>, out.result.warnings, out.result.stage,
                                         "Pipeline processing failed")
    /\ UNCHANGED <<doc, segVars, valVars, memVars, extVars>>

\* lines 239-318 of app.py, for one uploaded file
UploadFile ==
    /\ doc.caller = "web" /\ ~shown.done
    /\ IF ~doc.pdf_name
       THEN /\ shown' = Shown(FALSE, <<>>, <<>>, "none", "Invalid file type")
            /\ UNCHANGED proc_out
       ELSE \E replies \in ReplyChoices, cwd_file \in {disk, AbsentFile} :
              LET out == process_pdf(doc.text, None, load_user_preferences(cwd_file), replies)
              IN  /\ proc_out' = [called |-> TRUE, replies |-> replies, out |-> out]
                  /\ shown' = IF out.result.success
                              THEN Shown(TRUE, out.result.data, out.result.warnings,
                                         out.result.stage, "")
                              ELSE Shown(TRUE, FailedMetadata, out.result.warnings,
                                         out.result.stage, "")
    /\ UNCHANGED <<doc, segVars, valVars, memVars, extVars>>

PipeNext == ProcessPdf \/ ProcessSingleFile \/ UploadFile

SpecPipe == PipeInit /\ [][PipeNext]_vars

(***************************************************************************)
(* A FeedbackMemory over its feedback file                                 *)
(***************************************************************************)
MaxCorrections == 2

NewTitleUpper == <<"N","E","W"," ","T","I","T","L","E">>

NewTitleCase == <<"N","e","w"," ","T","i","t","l","e">>

NewTitleLower == <<"n","e","w"," ","t","i","t","l","e">>

Volume3Issue4 == <<"V","o","l","u","m","e"," ","3",","," ","I","s","s","u","e"," ","4">>

ThreeOfFour == <<"3","/","4">>

MixedAb == <<"A","b">>

UpperAB == <<"A","B">>

LongOriginalY == Rep("X", PatternKeyLen) \o <<"y">>

LongOriginalZ == Rep("x", PatternKeyLen) \o <<"z">>

BriefDescription == Rep("s", BriefBelow - 1)

MediumDescription == Rep("m", BriefBelow)

DetailedDescription == Rep("l", DetailedAbove + 1)

\* (field, original value, corrected value) of the corrections an operator submits
CorrectionInputs ==
    {<<"title", <<>>, NewTitleUpper>>, <<"title", EmptyKey, NewTitleCase>>,
     <<"title", MixedAb, NewTitleLower>>, <<"title", UpperAB, NewTitleCase>>,
     <<"description", LongOriginalY, BriefDescription>>,
     <<"description", LongOriginalZ, DetailedDescription>>,
     <<"description", <<>>, MediumDescription>>,
     <<"volume_issue", MixedAb, Vol3No4>>, <<"volume_issue", MixedAb, Volume3Issue4>>,
     <<"pub_date", <<>>, June1979>>}

Queries ==
    {<<"title", <<>>>>, <<"title", UpperAB>>, <<"description", <<>>>>,
     <<"description", LongOriginalY>>, <<"description", Rep("x", PatternKeyLen)>>,
     <<"abstract", <<>>>>}

Called(op, raised) == [op |-> op, raised |-> raised, by |-> 0]

MemInit ==
    /\ feedback_data = DefaultMemory
    /\ disk \in {AbsentFile, CorruptFile}
    /\ clock = 0
    /\ suggestion = NoSuggestion
    /\ mem_out = NoCall
    /\ stores = NoStores
    /\ SegIdle /\ ValIdle /\ PipeIdle /\ ExtIdle

\* FeedbackMemory.__init__ (lines 24-30): a new session over the feedback file
Load ==
    /\ feedback_data' = load_memory(disk)
    /\ suggestion' = NoSuggestion
    /\ mem_out' = Called("load_memory", "")
    /\ UNCHANGED <<disk, clock, stores, segVars, valVars, pipeVars, extVars>>

\* add_correction (lines 65-88) as handle_corrections calls it (line 253), with
\* save_memory (lines 59-63)
Correct(inputs, most) ==
    /\ clock < 2 * most
    /\ \E c \in inputs, opened \in BOOLEAN :
          \E call \in {add_correction(feedback_data, "a.pdf", c[1], c[2], c[3],
                                      "File: a.pdf", clock + 1)} :
             IF call.raised # ""
             THEN /\ feedback_data' = call.memory
                  /\ disk' = disk
                  /\ mem_out' = Called("add_correction", call.raised)
             ELSE /\ feedback_data' = Stamped(call.memory, clock + 2)
                  /\ disk' = save_memory(disk, feedback_data', opened)
                  /\ mem_out' = Called("add_correction", IF opened THEN "" ELSE "OSError")
    /\ clock' = clock + 2
    /\ suggestion' = NoSuggestion
    /\ UNCHANGED <<stores, segVars, valVars, pipeVars, extVars>>

AddCorrection == Correct(CorrectionInputs, MaxCorrections)

\* get_suggestion (lines 124-130) as display_metadata calls it (line 197);
\* feedback_data["patterns"] raises KeyError on a memory without the key
GetSuggestion ==
    /\ \E q \in Queries :
          IF HasKey(feedback_data, "patterns")
          THEN /\ suggestion' = [field |-> q[1], value |-> q[2],
                                  result |-> get_suggestion(feedback_data, q[1], q[2])]
               /\ mem_out' = Called("get_suggestion", "")
          ELSE /\ suggestion' = NoSuggestion
               /\ mem_out' = Called("get_suggestion", KeyError("patterns", feedback_data).raised)
    /\ UNCHANGED <<feedback_data, disk, clock, stores, segVars, valVars, pipeVars, extVars>>

\* get_user_preferences (lines 120-122) as handle_corrections calls it (line 256)
ReadPreferences ==
    /\ mem_out' = Called("get_user_preferences",
                          IF HasKey(feedback_data, "user_preferences") THEN ""
                          ELSE KeyError("user_preferences", feedback_data).raised)
    /\ suggestion' = NoSuggestion
    /\ UNCHANGED <<feedback_data, disk, clock, stores, segVars, valVars, pipeVars, extVars>>

MemNext == Load \/ AddCorrection \/ GetSuggestion

SpecMem == MemInit /\ [][MemNext]_vars

(***************************************************************************)
(* Corrections that drive the preference rules                             *)
(***************************************************************************)
PreferenceInputs ==
    {<<"title", MixedAb, NewTitleUpper>>, <<"title", MixedAb, NewTitleCase>>,
     <<"title", MixedAb, NewTitleLower>>,
     <<"description", MixedAb, BriefDescription>>, <<"description", MixedAb, MediumDescription>>,
     <<"description", MixedAb, DetailedDescription>>,
     <<"volume_issue", MixedAb, Vol3No4>>, <<"volume_issue", MixedAb, Volume3Issue4>>,
     <<"volume_issue", MixedAb, ThreeOfFour>>,
     <<"pub_date", MixedAb, June1979>>}

CorrectPreference == Correct(PreferenceInputs, MaxCorrections)

PrefNext == Load \/ CorrectPreference \/ ReadPreferences

SpecPrefs == MemInit /\ [][PrefNext]_vars

(***************************************************************************)
(* Feedback files written by other versions: JSON objects that lack keys   *)
(***************************************************************************)
Without(d, key) == [k \in DOMAIN d \ {key} |-> d[k]]

LoadedMemories ==
    {<<>>, DefaultMemory,
     Without(DefaultMemory, "corrections"), Without(DefaultMemory, "patterns"),
     Without(DefaultMemory, "user_preferences"), Without(DefaultMemory, "last_updated"),
     [DefaultMemory EXCEPT !.user_preferences = Without(@, "description_examples")],
     [DefaultMemory EXCEPT !.user_preferences = Without(@, "title_format")],
     [DefaultMemory EXCEPT !.user_preferences = <<>>]}

Files == {AbsentFile, CorruptFile, UnreadableFile} \cup {SavedFile(m) : m \in LoadedMemories}

FileInputs ==
    {<<"title", MixedAb, NewTitleUpper>>, <<"title", MixedAb, NewTitleLower>>,
     <<"description", <<>>, BriefDescription>>, <<"description", <<>>, MediumDescription>>,
     <<"pub_date", MixedAb, June1979>>}

\* FeedbackMemory.__init__ (lines 24-30) over one of the files
FileInit ==
    /\ disk \in Files
    /\ feedback_data = load_memory(disk)
    /\ clock = 0
    /\ suggestion = NoSuggestion
    /\ mem_out = NoCall
    /\ stores = NoStores
    /\ SegIdle /\ ValIdle /\ PipeIdle /\ ExtIdle

CorrectLoaded == Correct(FileInputs, MaxCorrections)

FileNext == Load \/ CorrectLoaded \/ GetSuggestion \/ ReadPreferences

SpecFile == FileInit /\ [][FileNext]_vars

(***************************************************************************)
(* Two FeedbackMemory objects over one feedback file                       *)
(***************************************************************************)
Instances == {1, 2}

TwoInputs ==
    {<<"title", MixedAb, NewTitleUpper>>, <<"title", UpperAB, NewTitleCase>>,
     <<"description", MixedAb, BriefDescription>>}

\* both objects are constructed (lines 24-30) while the file is absent
TwoInit ==
    /\ disk = AbsentFile
    /\ stores = [i \in Instances |-> load_memory(disk)]
    /\ feedback_data = DefaultMemory
    /\ clock = 0
    /\ suggestion = NoSuggestion
    /\ mem_out = NoCall
    /\ SegIdle /\ ValIdle /\ PipeIdle /\ ExtIdle

\* a new FeedbackMemory in the place of object i (lines 24-30)
Reopen ==
    /\ \E i \in Instances :
          /\ stores' = [stores EXCEPT ![i] = load_memory(disk)]
          /\ mem_out' = [op |-> "load_memory", raised |-> "", by |-> i]
    /\ UNCHANGED <<feedback_data, disk, clock, suggestion, segVars, valVars, pipeVars, extVars>>

\* add_correction (lines 65-88) on object i; the file stays writable, so
\* save_memory (lines 59-63) writes and the call returns
CorrectBy ==
    /\ clock < 2 * MaxCorrections
    /\ \E i \in Instances, c \in TwoInputs :
          \E call \in {add_correction(stores[i], "a.pdf", c[1], c[2], c[3],
                                      "File: a.pdf", clock + 1)} :
             /\ stores' = [stores EXCEPT ![i] = Stamped(call.memory, clock + 2)]
             /\ disk' = save_memory(disk, stores'[i], TRUE)
             /\ mem_out' = [op |-> "add_correction", raised |-> call.raised, by |-> i]
    /\ clock' = clock + 2
    /\ UNCHANGED <<feedback_data, suggestion, segVars, valVars, pipeVars, extVars>>

TwoNext == Reopen \/ CorrectBy

SpecTwo == TwoInit /\ [][TwoNext]_vars

(***************************************************************************)
(* Description corrections that fill description_examples                  *)
(***************************************************************************)
MaxDescriptions == 7

ExampleDescription(i) == Rep("d", i)

\* the descriptions the memory has been corrected to
Described(memory) == {memory.corrections[i].corrected : i \in 1..Len(memory.corrections)}

\* The description_examples rules tell descriptions apart by equality only, so
\* the descriptions are named in the order of their first use: a correction
\* submits one of those the memory holds or the next new one.
CorrectDescription ==
    Correct({<<"description", MixedAb, ExampleDescription(i)>> :
                i \in 1..(Cardinality(Described(feedback_data)) + 1)},
            MaxDescriptions)

ExamplesNext == Load \/ CorrectDescription \/ ReadPreferences

SpecExamples == MemInit /\ [][ExamplesNext]_vars

(***************************************************************************)
(* The feedback loop: corrections, then a document processed by a caller   *)
(***************************************************************************)
LoopInputs ==
    {<<"description", MixedAb, BriefDescription>>, <<"description", MixedAb, DetailedDescription>>,
     <<"title", MixedAb, NewTitleUpper>>}

LoopDocs ==
    {Doc(caller, [kind |-> "str", val |-> Rep("a", MinSegmentLen + 1)], None, TRUE) :
        caller \in {"checker", "web"}}

\* an InteractiveDataChecker (lines 145-159 of data_checker.py) and the web
\* application (lines 44-46 of app.py) started while no feedback file exists
LoopInit ==
    /\ doc \in LoopDocs
    /\ proc_out = NotProcessed
    /\ shown = NotShown
    /\ feedback_data = DefaultMemory
    /\ disk = AbsentFile
    /\ clock = 0
    /\ suggestion = NoSuggestion
    /\ mem_out = NoCall
    /\ stores = NoStores
    /\ SegIdle /\ ValIdle /\ ExtIdle

\* handle_corrections (lines 224-263 of data_checker.py) before the document
\* is processed; the pipeline it rebuilds (lines 256-257) holds
\* feedback_data["user_preferences"] itself
CorrectInLoop == ~proc_out.called /\ Correct(LoopInputs, MaxCorrections)

LoopNext == CorrectInLoop \/ ProcessSingleFile \/ UploadFile

SpecLoop == LoopInit /\ [][LoopNext]_vars

(***************************************************************************)
(* Specifications over two of the input families                           *)
(***************************************************************************)
\* every PipelineResult: those of validate_metadata alone and those of process_pdf
SpecResults == (ValInit \/ PipeInit) /\ [][ValNext \/ PipeNext]_vars

\* segmentation alone and inside process_pdf
SpecSegPipe == (SegInit \/ PipeInit) /\ [][SegNext \/ PipeNext]_vars

(***************************************************************************)
(* Properties                                                              *)
(***************************************************************************)
Processed == proc_out.called

Result == proc_out.out.result

\* a step of the call raised: segmentation, the join over a bytes segment, or
\* .strip() on a 'response' that is null
C1_StepRaised ==
    LET seg == clean_and_segment(doc.text)
    IN  \/ seg.raised
        \/ /\ Len(seg.segments) > 0
           /\ seg.kind # "str" \/ \E f \in Fields : proc_out.replies[f] = Reply("response", None)

\* C1: process_pdf never raises to its caller: every call returns a
\* PipelineResult, and when segmentation, an extraction or validation raised,
\* the result has stage 'pipeline', success false and exactly one warning,
\* which carries the exception's message.
C1_ProcessNeverRaises ==
    Processed =>
        /\ ~proc_out.out.raised
        /\ Result.stage \in {"preprocessing", "validation", "pipeline"}
        /\ C1_StepRaised =>
              /\ Result.stage = "pipeline"
              /\ Result.success = FALSE
              /\ Len(Result.warnings) = 1
              /\ Result.warnings[1] = "Pipeline error: " \o proc_out.out.msg
              /\ proc_out.out.msg \in
                    {"'NoneType' object is not subscriptable",
                     "sequence item 0: expected str instance, bytes found",
                     "'NoneType' object has no attribute 'strip'"}

\* a call on a text in which the title was extracted and a later extraction raised
C1_Witness ==
    /\ Processed
    /\ doc.text.kind = "str"
    /\ proc_out.replies["title"].val = ATitle
    /\ proc_out.replies["description"] = Reply("response", None)
    /\ Result.stage = "pipeline"
    /\ Len(proc_out.out.requests) = 3

\* C2: every PipelineResult of validate_metadata or process_pdf, at any stage,
\* has success true exactly when its warning list is empty.
C2_SuccessIffNoWarnings ==
    /\ val_out.stage # "none" => (val_out.success <=> Len(val_out.warnings) = 0)
    /\ Processed => (Result.success <=> Len(Result.warnings) = 0)

\* a validated result whose only warning is the description's
C2_Witness ==
    /\ Processed
    /\ Result.stage = "validation"
    /\ Result.success = FALSE
    /\ Result.warnings = <<DescriptionLongWarning>>

\* C3: for every document processed through a caller, the operator is
\* presented a result object with a value for each of the four fields and the
\* warning list, and a result with warnings is neither dropped nor replaced.
C3_OperatorSeesEveryResult ==
    (Processed /\ doc.caller \in {"checker", "web"}) =>
        /\ shown.present
        /\ Fields \subseteq DOMAIN shown.metadata
        /\ shown.warnings = Result.warnings
        /\ Result.stage = "validation" =>
              \A f \in Fields : shown.metadata[f] = Result.data[f]

\* the inference failures of the claim: no reply, a status or body that is no
\* JSON object, a missing 'response' entry, a 'response' that is no string
C4_InferenceFailure(reply) ==
    \/ reply.kind \in {"unreachable", "timeout", "http_error", "non_json", "json_array",
                       "no_response_key"}
    \/ reply.kind = "response" /\ reply.val = None

\* C4: each of the four extraction operations returns the empty string, and
\* does not raise, on every inference failure.
C4_ExtractionFailuresAreSilent ==
    (ext_out.called /\ ext_args.seg.kind = "str" /\ C4_InferenceFailure(ext_args.reply)) =>
        /\ ~ext_out.out.raised
        /\ ext_out.out.value = <<>>

\* C5: for every str input the output of clean_and_segment has at most 10
\* elements, each longer than 20 characters; an output of the exception
\* fallback has exactly one element, of at most 1000 characters.
C5_SegmentBounds ==
    /\ (raw_text.kind = "str" /\ seg_out.path # "none") =>
          /\ seg_out.path = "main"
          /\ Len(seg_out.segments) <= 10
          /\ \A k \in 1..Len(seg_out.segments) : Len(seg_out.segments[k]) > 20
    /\ (seg_out.path = "fallback" /\ ~seg_out.raised) =>
          /\ Len(seg_out.segments) = 1
          /\ Len(seg_out.segments[1]) <= 1000

\* a str input that was cleaned into one segment
C5_Witness ==
    /\ raw_text.kind = "str"
    /\ seg_out.path = "main"
    /\ Len(seg_out.segments) = 1
    /\ seg_out.segments[1] # raw_text.val

C6_NoBreaks(s) ==
    /\ ~Contains(s, <<"\n", "\n">>)
    /\ \A i \in 1..Len(s) : s[i] \notin {".", "!", "?"}

\* C6 as stated: every raw text longer than 20 characters without a paragraph
\* break or sentence punctuation yields at least one segment, and process_pdf
\* does not end at the preprocessing stage for it.
C6_LongRawTextSegments ==
    /\ (raw_text.kind = "str" /\ seg_out.path # "none"
        /\ Len(raw_text.val) > 20 /\ C6_NoBreaks(raw_text.val)) =>
          Len(seg_out.segments) >= 1
    /\ (Processed /\ doc.text.kind = "str"
        /\ Len(doc.text.val) > 20 /\ C6_NoBreaks(doc.text.val)) =>
          Result.stage # "preprocessing"

\* the text that is left of s: outer whitespace trimmed, every whitespace run
\* one space, only letters, digits, underscore, space and . , ; : ! ? - ( )
\* kept, and trimmed again
C6_Cleaned(s) == strip(CleanText(s))

\* C6 amended: every raw text without a paragraph break or sentence
\* punctuation whose cleaned text is longer than 20 characters yields at least
\* one segment, and process_pdf does not end at the preprocessing stage for it.
C6_LongCleanedTextSegments ==
    /\ (raw_text.kind = "str" /\ seg_out.path # "none"
        /\ Len(C6_Cleaned(raw_text.val)) > 20 /\ C6_NoBreaks(raw_text.val)) =>
          Len(seg_out.segments) >= 1
    /\ (Processed /\ doc.text.kind = "str"
        /\ Len(C6_Cleaned(doc.text.val)) > 20 /\ C6_NoBreaks(doc.text.val)) =>
          Result.stage # "preprocessing"

\* a text of 21 kept characters and one artifact, segmented into one segment
C6_Witness ==
    /\ raw_text.kind = "str"
    /\ C6_NoBreaks(raw_text.val)
    /\ Len(raw_text.val) = 22
    /\ Len(C6_Cleaned(raw_text.val)) = 21
    /\ Len(seg_out.segments) = 1

\* C7: the data validate_metadata returns holds all four keys, and every
\* argument that was None appears in it as the empty string.
C7_AbsentDefaultsToEmpty ==
    val_out.stage = "validation" =>
        /\ DOMAIN val_out.data = Fields
        /\ val_args[1] = None => val_out.data["title"] = <<>>
        /\ val_args[2] = None => val_out.data["pub_date"] = <<>>
        /\ val_args[3] = None => val_out.data["description"] = <<>>
        /\ val_args[4] = None => val_out.data["volume_issue"] = <<>>

C8_Absent(v) == v = <<"None">>

\* C8: for title (bounds 3 and 200) and description (bounds 10 and 1000) the
\* 'missing or too short' warning is appended exactly when the value is absent
\* or shorter than the lower bound, the different 'unusually long' warning
\* exactly when it is longer than the upper bound, and none in between.
C8_LengthWarnings ==
    val_out.stage = "validation" =>
        LET title == val_args[1]
            description == val_args[3]
            w == val_out.warnings
        IN  /\ InSeq("Title missing or too short", w)
                <=> (C8_Absent(title) \/ Len(title) < 3)
            /\ InSeq("Title unusually long - may be incorrect", w)
                <=> (~C8_Absent(title) /\ Len(title) > 200)
            /\ InSeq("Description missing or too short", w)
                <=> (C8_Absent(description) \/ Len(description) < 10)
            /\ InSeq("Description unusually long - may include extra content", w)
                <=> (~C8_Absent(description) /\ Len(description) > 1000)

\* a description of exactly 10 characters, validated without a description warning
C8_Witness ==
    /\ val_out.stage = "validation"
    /\ val_args[3] # <<"None">> /\ Len(val_args[3]) = 10
    /\ val_args[1] # <<"None">> /\ Len(val_args[1]) = 201
    /\ val_out.warnings = <<"Title unusually long - may be incorrect">>

C9_NonEmpty(v) == v # <<"None">> /\ v # <<>>

C9_YearDigitsAt(s, i) ==
    /\ i + 3 <= Len(s)
    /\ <<s[i], s[i + 1]>> \in {<<"1", "9">>, <<"2", "0">>}
    /\ s[i + 2] \in Digits /\ s[i + 3] \in Digits

\* four digits beginning with 19 or 20 anywhere in s
C9_YearSubstring(s) == \E i \in 1..Len(s) : C9_YearDigitsAt(s, i)

\* such four digits with no letter, digit or underscore right before or after
C9_StandaloneYear(s) ==
    \E i \in 1..Len(s) :
        /\ C9_YearDigitsAt(s, i)
        /\ i = 1 \/ ~IsWord(s[i - 1])
        /\ i + 3 = Len(s) \/ ~IsWord(s[i + 4])

\* C9 as stated: the date warning is appended exactly when pub_date is
\* non-empty and contains no 4-digit substring beginning with 19 or 20, also
\* not inside a longer run of digits or letters.
C9_DateWarningIffNoYearSubstring ==
    val_out.stage = "validation" =>
        (InSeq("Date format unexpected - no 4-digit year found", val_out.warnings)
            <=> (C9_NonEmpty(val_args[2]) /\ ~C9_YearSubstring(val_args[2])))

\* C9 amended: the date warning is appended exactly when pub_date is
\* non-empty and contains no 4-digit number beginning with 19 or 20 that
\* stands alone (no letter, digit or underscore right before or after it); an
\* empty or absent pub_date never produces it.
C9_DateWarningIffNoStandaloneYear ==
    val_out.stage = "validation" =>
        (InSeq("Date format unexpected - no 4-digit year found", val_out.warnings)
            <=> (C9_NonEmpty(val_args[2]) /\ ~C9_StandaloneYear(val_args[2])))

\* a pub_date whose only year digits are inside a longer run, validated with the warning
C9_Witness ==
    /\ val_out.stage = "validation"
    /\ C9_NonEmpty(val_args[2])
    /\ C9_YearSubstring(val_args[2])
    /\ ~C9_StandaloneYear(val_args[2])
    /\ InSeq("Date format unexpected - no 4-digit year found", val_out.warnings)

\* the pattern key of the claim: 'empty' for a blank value, else the
\* lowercased first 50 characters
C10_Key(v) ==
    IF v = <<>> THEN <<"e","m","p","t","y">>
    ELSE SubSeq(lower(v), 1, IF Len(v) < 50 THEN Len(v) ELSE 50)

C10_Matches(corrections, field, value) ==
    {i \in 1..Len(corrections) :
        corrections[i].field = field /\ C10_Key(corrections[i].original) = C10_Key(value)}

\* the corrected value of the most recent matching correction, or None
C10_Expected(corrections, field, value) ==
    LET m == C10_Matches(corrections, field, value)
    IN  IF m = {} THEN <<"None">>
        ELSE corrections[CHOOSE i \in m : \A j \in m : j <= i].corrected

\* C10: after any sequence of add_correction calls, get_suggestion(field,
\* value) returns the corrected value of the most recent correction on that
\* field whose original has the pattern key of value, and None when there is
\* none; the call changes nothing in the memory or its file.
C10_SuggestionIsLatestCorrection ==
    [][suggestion'.field # "none" =>
          /\ suggestion'.result =
                C10_Expected(feedback_data.corrections, suggestion'.field, suggestion'.value)
          /\ feedback_data' = feedback_data
          /\ disk' = disk]_vars

\* a suggestion that is the later of two corrections under one key, of which
\* the earlier one has another corrected value and another original
C10_Witness ==
    /\ suggestion.field = "title"
    /\ suggestion.value = UpperAB
    /\ Len(feedback_data.corrections) = 2
    /\ feedback_data.corrections[1].original # feedback_data.corrections[2].original
    /\ feedback_data.corrections[1].corrected # feedback_data.corrections[2].corrected
    /\ C10_Matches(feedback_data.corrections, "title", UpperAB) = {1, 2}
    /\ suggestion.result = feedback_data.corrections[2].corrected

C11_Stored(file) == IF file.state = "saved" THEN file.data.corrections ELSE <<>>

C11_Extends(old, new) == Len(old) <= Len(new) /\ SubSeq(new, 1, Len(old)) = old

\* C11: the corrections list is append-only: every add_correction adds exactly
\* one Correction, the submitted one, at the end of the list and leaves the
\* earlier ones as they were; get_suggestion leaves the list alone; a new
\* session starts from the stored list, and the stored list is only extended.
C11_AppendOnly ==
    [][LET old == feedback_data.corrections
           new == feedback_data'.corrections
       IN  /\ mem_out'.op = "add_correction" =>
                 /\ Len(new) = Len(old) + 1
                 /\ SubSeq(new, 1, Len(old)) = old
                 /\ <<new[Len(new)].field, new[Len(new)].original, new[Len(new)].corrected>>
                       \in CorrectionInputs
                 /\ new[Len(new)].timestamp = clock + 1
           /\ mem_out'.op = "get_suggestion" => new = old
           /\ mem_out'.op = "load_memory" => new = C11_Stored(disk)
           /\ C11_Extends(C11_Stored(disk), C11_Stored(disk'))]_vars

\* a second correction of the same field and original, added behind the first
C11_Witness ==
    /\ mem_out.op = "add_correction"
    /\ Len(feedback_data.corrections) = 2
    /\ feedback_data.corrections[1].field = feedback_data.corrections[2].field
    /\ feedback_data.corrections[1].original = feedback_data.corrections[2].original
    /\ feedback_data.corrections[1].timestamp < feedback_data.corrections[2].timestamp

\* C12: whenever add_correction has finished, returned or failed, the
\* corrections, patterns and user_preferences in the feedback file equal those
\* held in memory.
C12_PersistedAfterEveryMutation ==
    mem_out.op = "add_correction" =>
        /\ disk.state = "saved"
        /\ disk.data.corrections = feedback_data.corrections
        /\ disk.data.patterns = feedback_data.patterns
        /\ disk.data.user_preferences = feedback_data.user_preferences

C17_Triple(c) == <<c.field, c.original, c.corrected>>

\* C17: add_correction is idempotent on patterns: a correction with the field,
\* original and corrected value of the one applied just before it leaves the
\* patterns table as that one left it.
C17_IdempotentOnPatterns ==
    [][(/\ mem_out'.op = "add_correction"
        /\ Len(feedback_data.corrections) >= 1
        /\ Len(feedback_data'.corrections) = Len(feedback_data.corrections) + 1
        /\ C17_Triple(feedback_data'.corrections[Len(feedback_data'.corrections)])
              = C17_Triple(feedback_data.corrections[Len(feedback_data.corrections)]))
       => feedback_data'.patterns = feedback_data.patterns]_vars

\* the same correction applied twice in a row, its key holding its corrected value
C17_Witness ==
    /\ mem_out.op = "add_correction"
    /\ Len(feedback_data.corrections) = 2
    /\ C17_Triple(feedback_data.corrections[1]) = C17_Triple(feedback_data.corrections[2])
    /\ feedback_data.corrections[2].field = "description"
    /\ feedback_data.corrections[2].original = LongOriginalZ
    /\ feedback_data.patterns["description"][Rep("x", PatternKeyLen)]
          = feedback_data.corrections[2].corrected

C13_Preference(memory, field) ==
    IF field = "description" THEN memory.user_preferences.description_style
    ELSE IF field = "title" THEN memory.user_preferences.title_format
    ELSE memory.user_preferences.volume_format

C13_On(corrections, field) == {i \in 1..Len(corrections) : corrections[i].field = field}

C13_Latest(set) == CHOOSE i \in set : \A j \in set : j <= i

\* the preference a history consisting of one correction with this value gives
C13_Alone(field, corrected) ==
    C13_Preference([DefaultMemory EXCEPT !.user_preferences =
                        update_fine_tuning_preferences(@, field, <<>>, corrected)], field)

\* C13 as stated: each of description_style, title_format and volume_format is
\* determined by the corrected value of the latest correction on its field
\* alone, so it is the value the history of that one correction gives.
C13_LatestAloneDetermines ==
    \A field \in {"description", "title", "volume_issue"} :
        LET on == C13_On(feedback_data.corrections, field)
        IN  on # {} =>
               C13_Preference(feedback_data, field)
                  = C13_Alone(field, feedback_data.corrections[C13_Latest(on)].corrected)

C13_HasBoth(corrected, a, b) == Contains(corrected, a) /\ Contains(corrected, b)

\* the corrected value matches one of the rules of its field
C13_Rule(field, corrected) ==
    IF field = "description" THEN Len(corrected) < 50 \/ Len(corrected) > 200
    ELSE IF field = "title" THEN isupper(corrected) \/ istitle(corrected)
    ELSE \/ C13_HasBoth(corrected, <<"V","o","l","u","m","e">>, <<"I","s","s","u","e">>)
         \/ C13_HasBoth(corrected, <<"V","o","l",".">>, <<"N","o",".">>)

C13_Value(field, corrected) ==
    IF field = "description"
    THEN IF Len(corrected) < 50 THEN "Keep descriptions brief and concise"
         ELSE "Provide detailed comprehensive descriptions"
    ELSE IF field = "title"
    THEN IF isupper(corrected) THEN "Prefer uppercase titles" ELSE "Prefer title case"
    ELSE IF C13_HasBoth(corrected, <<"V","o","l","u","m","e">>, <<"I","s","s","u","e">>)
    THEN "Use 'Volume X, Issue Y' format"
    ELSE "Use 'Vol. X, No. Y' format"

\* C13 as amended: starting from the default memory, each of the three
\* preferences is determined by the corrected value of the latest correction
\* on its field that matches a rule of the field, and is blank when no
\* correction on the field matched one.
C13_LatestMatchingDetermines ==
    \A field \in {"description", "title", "volume_issue"} :
        LET matching == {i \in C13_On(feedback_data.corrections, field) :
                            C13_Rule(field, feedback_data.corrections[i].corrected)}
        IN  C13_Preference(feedback_data, field)
               = IF matching = {} THEN ""
                 ELSE C13_Value(field, feedback_data.corrections[C13_Latest(matching)].corrected)

\* an uppercase title correction followed by one that matches no title rule
C13_Witness ==
    /\ mem_out.op = "add_correction"
    /\ Len(feedback_data.corrections) = 2
    /\ feedback_data.corrections[1].field = "title"
    /\ feedback_data.corrections[2].field = "title"
    /\ isupper(feedback_data.corrections[1].corrected)
    /\ ~C13_Rule("title", feedback_data.corrections[2].corrected)
    /\ feedback_data.user_preferences.title_format = "Prefer uppercase titles"

C15_Last(memory) == memory.corrections[Len(memory.corrections)]

\* C15: a volume_issue correction whose corrected value contains both 'Volume'
\* and 'Issue' sets volume_format to the 'Volume X, Issue Y' convention,
\* whatever it was; one that contains both 'Vol.' and 'No.' and not both
\* 'Volume' and 'Issue' sets it to the 'Vol. X, No. Y' convention; one that
\* matches neither pair leaves volume_format unchanged.
C15_VolumeFormat ==
    [][(/\ mem_out'.op = "add_correction"
        /\ Len(feedback_data'.corrections) = Len(feedback_data.corrections) + 1
        /\ C15_Last(feedback_data').field = "volume_issue")
       => LET corrected == C15_Last(feedback_data').corrected
              long == C13_HasBoth(corrected, <<"V","o","l","u","m","e">>, <<"I","s","s","u","e">>)
              short == C13_HasBoth(corrected, <<"V","o","l",".">>, <<"N","o",".">>)
          IN  feedback_data'.user_preferences.volume_format
                 = IF long THEN "Use 'Volume X, Issue Y' format"
                   ELSE IF short THEN "Use 'Vol. X, No. Y' format"
                   ELSE feedback_data.user_preferences.volume_format]_vars

\* 'Vol. 3, No. 4' corrected first and 'Volume 3, Issue 4' after it
C15_Witness ==
    /\ mem_out.op = "add_correction"
    /\ Len(feedback_data.corrections) = 2
    /\ feedback_data.corrections[1].field = "volume_issue"
    /\ feedback_data.corrections[1].corrected = Vol3No4
    /\ feedback_data.corrections[2].field = "volume_issue"
    /\ feedback_data.corrections[2].corrected = Volume3Issue4
    /\ feedback_data.user_preferences.volume_format = "Use 'Volume X, Issue Y' format"

C16_Apply(prefs, field, original, corrected) ==
    update_fine_tuning_preferences(prefs, field, original, corrected)

\* C16: corrections on different fields commute on user_preferences: after a
\* correction c, applying a correction d on another field gives the preferences
\* that d first and c second give from the same memory; and c changes no
\* preference entry of another field.
C16_DifferentFieldsCommute ==
    [][(/\ mem_out'.op = "add_correction"
        /\ Len(feedback_data'.corrections) = Len(feedback_data.corrections) + 1)
       => LET c == C15_Last(feedback_data')
              before == feedback_data.user_preferences
              after == feedback_data'.user_preferences
          IN  /\ \A d \in PreferenceInputs :
                    d[1] # c.field =>
                       C16_Apply(after, d[1], d[2], d[3])
                          = C16_Apply(C16_Apply(before, d[1], d[2], d[3]),
                                      c.field, c.original, c.corrected)
              /\ c.field # "description" =>
                    /\ after.description_style = before.description_style
                    /\ after.description_examples = before.description_examples
              /\ c.field # "title" => after.title_format = before.title_format
              /\ c.field # "volume_issue" => after.volume_format = before.volume_format
              /\ after.date_format = before.date_format]_vars

\* a title correction and a description correction, each with its preference set
C16_Witness ==
    /\ mem_out.op = "add_correction"
    /\ Len(feedback_data.corrections) = 2
    /\ feedback_data.corrections[1].field = "title"
    /\ feedback_data.corrections[2].field = "description"
    /\ feedback_data.user_preferences.title_format = "Prefer uppercase titles"
    /\ feedback_data.user_preferences.description_style = "Keep descriptions brief and concise"
    /\ Len(feedback_data.user_preferences.description_examples) = 1

RECURSIVE C14_Held(_, _)
\* the corrections whose insertion into description_examples is still held after
\* the first n corrections: a description not held is inserted, and beyond 5
\* the one inserted earliest is removed
C14_Held(corrections, n) ==
    IF n = 0 THEN {}
    ELSE LET held == C14_Held(corrections, n - 1)
             c == corrections[n]
         IN  IF c.field # "description" THEN held
             ELSE IF \E i \in held : corrections[i].corrected = c.corrected THEN held
             ELSE IF Cardinality(held) + 1 > 5
             THEN (held \cup {n}) \ {CHOOSE i \in held : \A j \in held : i <= j}
             ELSE held \cup {n}

\* C14: starting from the default memory, description_examples holds at most 5
\* entries, without repetition: the corrected descriptions that were inserted
\* when not already present and not removed since, the one inserted earliest
\* being removed whenever the list would exceed 5.
C14_ExamplesBounded ==
    LET examples == feedback_data.user_preferences.description_examples
        held == C14_Held(feedback_data.corrections, Len(feedback_data.corrections))
    IN  /\ Len(examples) <= 5
        /\ Len(examples) = Cardinality(held)
        /\ {examples[k] : k \in 1..Len(examples)}
              = {feedback_data.corrections[i].corrected : i \in held}

\* six different descriptions corrected: five are held, the first one is not
C14_Witness ==
    /\ mem_out.op = "add_correction"
    /\ Len(feedback_data.corrections) >= 6
    /\ Cardinality({feedback_data.corrections[i].corrected :
                        i \in 1..Len(feedback_data.corrections)}) = 6
    /\ Len(feedback_data.user_preferences.description_examples) = 5
    /\ ~InSeq(feedback_data.corrections[1].corrected,
              feedback_data.user_preferences.description_examples)

\* the memory with every absent key at its empty shape
C18_Defaulted(data) ==
    LET blank == [description_style |-> "", description_examples |-> <<>>, title_format |-> "",
                  date_format |-> "", volume_format |-> ""]
        top == [corrections |-> <<>>, patterns |-> <<>>, user_preferences |-> blank,
                fine_tuning_prompts |-> [title |-> "", date |-> "", description |-> "",
                                         volume_issue |-> ""],
                last_updated |-> 0]
        filled == [k \in DOMAIN top |-> IF k \in DOMAIN data THEN data[k] ELSE top[k]]
    IN  [filled EXCEPT !.user_preferences =
            [k \in DOMAIN blank |-> IF k \in DOMAIN @ THEN @[k] ELSE blank[k]]]

\* C18: a feedback file that is a JSON object lacking FeedbackMemory keys is
\* loaded with every absent key defaulted to its empty shape, and every later
\* add_correction, get_suggestion and preference read ends without a KeyError.
C18_AbsentKeysDefaulted ==
    /\ (mem_out.op = "load_memory" /\ disk.state = "saved") =>
           feedback_data = C18_Defaulted(disk.data)
    /\ mem_out.op \in {"add_correction", "get_suggestion", "get_user_preferences"} =>
           mem_out.raised \in {"", "OSError"}

\* C19: load returns the default empty shape (no corrections, no patterns,
\* blank preferences with no description_examples, last_updated none) and does
\* not raise whenever the file is absent, cannot be opened or cannot be parsed.
C19_LoadDefaultsWhenUnreadable ==
    (mem_out.op = "load_memory" /\ disk.state \in {"absent", "unreadable", "corrupt"}) =>
        /\ mem_out.raised = ""
        /\ DOMAIN feedback_data = {"corrections", "patterns", "user_preferences",
                                   "fine_tuning_prompts", "last_updated"}
        /\ feedback_data.corrections = <<>>
        /\ feedback_data.patterns = <<>>
        /\ feedback_data.user_preferences =
              [description_style |-> "", description_examples |-> <<>>, title_format |-> "",
               date_format |-> "", volume_format |-> ""]
        /\ feedback_data.last_updated = 0

\* a session that corrected without being able to save, followed by a new
\* session over the file that cannot be parsed
C19_Witness ==
    /\ mem_out.op = "load_memory"
    /\ disk.state = "corrupt"
    /\ clock > 0
    /\ feedback_data = DefaultMemory

C20_Holds(corrections, c) == \E k \in 1..Len(corrections) : corrections[k] = c

\* C20: with two FeedbackMemory objects over one file and no locking, the last
\* whole-file write wins: after an add_correction the file holds exactly the
\* memory of the object that saved, so it lacks every correction another
\* object added and the saving object never loaded.
C20_LastWriterWins ==
    mem_out.op = "add_correction" =>
        /\ disk.state = "saved"
        /\ disk.data = stores[mem_out.by]
        /\ \A j \in Instances \ {mem_out.by} :
              \A k \in 1..Len(stores[j].corrections) :
                 ~C20_Holds(stores[mem_out.by].corrections, stores[j].corrections[k])
                    => ~C20_Holds(disk.data.corrections, stores[j].corrections[k])

\* the lost update: object 1 added and saved a title correction, object 2 then
\* added a description correction, and the file holds only the second
C20_Witness ==
    /\ mem_out.op = "add_correction"
    /\ mem_out.raised = ""
    /\ mem_out.by = 2
    /\ Len(stores[1].corrections) = 1
    /\ stores[1].corrections[1].field = "title"
    /\ stores[1].last_updated < stores[2].last_updated
    /\ Len(stores[2].corrections) = 1
    /\ stores[2].corrections[1].field = "description"
    /\ disk.data.corrections = stores[2].corrections
    /\ ~C20_Holds(disk.data.corrections, stores[1].corrections[1])

C22_Segmented == clean_and_segment(doc.text)

\* C22: when clean_and_segment returns an empty sequence, process_pdf returns a
\* result with stage 'preprocessing', exactly one warning and success false,
\* having sent no inference request and run no validation.
C22_EmptyShortCircuits ==
    (Processed /\ ~C22_Segmented.raised /\ Len(C22_Segmented.segments) = 0) =>
        /\ ~proc_out.out.raised
        /\ Result.stage = "preprocessing"
        /\ Len(Result.warnings) = 1
        /\ Result.success = FALSE
        /\ proc_out.out.requests = <<>>
        /\ proc_out.out.validations = 0

\* a text of 20 kept characters and an artifact, processed while the service
\* would have answered every request
C22_Witness ==
    /\ Processed
    /\ Len(doc.text.val) = 21
    /\ Len(C22_Segmented.segments) = 0
    /\ \A f \in Fields : proc_out.replies[f] = Reply("response", GoodReply(f))
    /\ Result.stage = "preprocessing"

\* C23: whenever clean_and_segment returns a non-empty sequence, process_pdf
\* sends the four extraction requests (title, date, description, volume/issue)
\* whatever each one's outcome, runs validate_metadata once after them and
\* returns its result, of stage 'validation'.
C23_FourExtractionsThenValidate ==
    (Processed /\ ~C22_Segmented.raised /\ Len(C22_Segmented.segments) > 0) =>
        /\ Len(proc_out.out.requests) = 4
        /\ [k \in 1..4 |-> proc_out.out.requests[k].op]
              = <<"title", "pub_date", "description", "volume_issue">>
        /\ proc_out.out.validations = 1
        /\ Result.stage = "validation"

\* C25: when the main segmentation steps fail, clean_and_segment returns a
\* one-element sequence holding the first 1000 items of the untouched input,
\* and the fallback does not raise.
C25_FallbackNeverRaises ==
    seg_out.path = "fallback" =>
        /\ ~seg_out.raised
        /\ Len(seg_out.segments) = 1
        /\ seg_out.segments[1] = SubSeq(raw_text.val, 1, MinOf(Len(raw_text.val), 1000))

\* C26 as stated: for every str input clean_and_segment returns the empty
\* sequence or exactly one element, equal to the whole cleaned text.
C26_NoneOrCleanedText ==
    (raw_text.kind = "str" /\ seg_out.path # "none") =>
        \/ seg_out.segments = <<>>
        \/ seg_out.segments = <<CleanText(raw_text.val)>>

\* C26 as amended: for every str input clean_and_segment returns the empty
\* sequence, when the cleaned text with its outer whitespace trimmed has at
\* most 20 characters, and otherwise exactly one element, equal to the cleaned
\* text with its outer whitespace trimmed; neither the double-newline split nor
\* the sentence split contributes a second or a shorter segment.
C26_NoneOrTrimmedCleanedText ==
    (raw_text.kind = "str" /\ seg_out.path # "none") =>
        LET trimmed == strip(CleanText(raw_text.val))
        IN  seg_out.segments = IF Len(trimmed) <= 20 THEN <<>> ELSE <<trimmed>>

\* two long runs around a paragraph break, kept as one segment
C26_Witness ==
    /\ raw_text.kind = "str"
    /\ seg_out.path = "main"
    /\ Contains(raw_text.val, DoubleNewline)
    /\ Len(seg_out.segments) = 1
    /\ Len(seg_out.segments[1]) > 2 * MinSegmentLen

\* C24: the description prompt has the 'User preferences' line only when
\* description_style is non-empty and the 'Examples of good descriptions' line
\* only when description_examples is non-empty, so that a prompt built from a
\* blank style and no examples is the prompt built from no preferences.
C24_LinesOnlyWhenNonEmpty ==
    (ext_out.called /\ ext_args.op = "description") =>
        \A k \in 1..Len(ext_out.out.requests) :
            LET prompt == ext_out.out.requests[k]
            IN  /\ prompt.has_style => prompt.style # ""
                /\ prompt.has_examples => prompt.examples # <<>>
                /\ (prompt.style = "" /\ prompt.examples = <<>>) =>
                      prompt = Prompt("description", prompt.text, <<>>, FALSE, "", FALSE, <<>>)

C21_Used(requests) ==
    {[has_style |-> requests[k].has_style, style |-> requests[k].style,
      has_examples |-> requests[k].has_examples, examples |-> requests[k].examples] :
        k \in {i \in 1..Len(requests) : requests[i].op = "description"}}

C21_From(prefs) ==
    [has_style |-> TRUE, style |-> prefs.description_style,
     has_examples |-> TRUE, examples |-> prefs.description_examples]

\* C21: a process_pdf call issued after an add_correction has completed builds
\* its description prompt from preferences that include the correction: in the
\* checker from the preferences of its memory, in the web upload handler from
\* the preferences of the last persisted correction.
C21_ProcessUsesLatestPreferences ==
    [][(~proc_out.called /\ proc_out'.called) =>
          /\ (doc.caller = "checker" /\ clock > 0) =>
                C21_Used(proc_out'.out.requests) \subseteq {C21_From(feedback_data.user_preferences)}
          /\ (doc.caller = "web" /\ disk.state = "saved") =>
                C21_Used(proc_out'.out.requests) \subseteq {C21_From(disk.data.user_preferences)}]_vars

====
